---- MODULE Spec2Model ----
(***************************************************************************)
(* Model of zeirishikensaku_scraper_template.py: the pagination driver of  *)
(* main(), the detail fetcher, the e-mail extractor, the era normalizer    *)
(* and the aggregator/exporter.                                            *)
(*                                                                         *)
(* A Python str is a sequence of one-character strings.  Characters that   *)
(* are not ASCII are written by name:                                      *)
(*   "hei" "sei"  = the two characters of the era name Heisei              *)
(*   "rei" "wa"   = the two characters of the era name Reiwa               *)
(*   "nen"        = the year character, "gatsu" = the month character      *)
(*   "idsp"       = U+3000 IDEOGRAPHIC SPACE, "tab" = U+0009               *)
(*   "fwslash"    = U+FF0F FULLWIDTH SOLIDUS (the join separator)          *)
(*   "ki" "sai" "na" "shi" = the four characters of the e-mail sentinel    *)
(***************************************************************************)
EXTENDS Integers, Sequences, FiniteSets, TLC

VARIABLES
    pc,           \* position in main(): "fetch", "detail", "extend", "after_loop",
                  \* "done", "no_results", "aborted" (or in normalize_era)
    page,         \* main: page
    rows,         \* main: rows, the records of the current page
    idx,          \* main: position of "for r in rows" (1-based)
    all_rows,     \* main: all_rows
    parsed,       \* the values parse_list returned, one per fetched page
    log,          \* the session.get and time.sleep calls made so far, in order
    lastResp,     \* outcome of the detail request of the last processed record
    df,           \* main: df after drop_duplicates
    sheetNoMail,  \* rows written to the sheet "<pref>_全件_メールなしのみ"
    sheetMail,    \* rows written to the sheet "<pref>_メールあり"
    written,      \* the output file has been written
    delay,        \* main: args.delay (--delay, type=float, in seconds)
    text,         \* normalize_era: argument
    result        \* normalize_era: return value

vars == <<pc, page, rows, idx, all_rows, parsed, log, lastResp,
          df, sheetNoMail, sheetMail, written, delay, text, result>>

(***************************************************************************)
(* Bounds of the model.                                                    *)
(***************************************************************************)
MaxRecords == 3
MaxAgg == 3
MaxEraSegs == 5
MaxItems == 4
MaxTextLen == 6

(***************************************************************************)
(* Strings.                                                                *)
(***************************************************************************)
\* None: a one-element sequence that no character sequence equals.
NULL == <<"None">>

Max(S) == CHOOSE x \in S : \A y \in S : y <= x

\* All sequences over S of length 0..n.
BoundedSeq(S, n) == UNION {[1..k -> S] : k \in 0..n}

RECURSIVE Concat(_)
Concat(ss) == IF ss = <<>> THEN <<>> ELSE Head(ss) \o Concat(Tail(ss))

\* sep.join(parts)
RECURSIVE Join(_, _)
Join(parts, sep) ==
    IF parts = <<>> THEN <<>>
    ELSE IF Len(parts) = 1 THEN parts[1]
    ELSE parts[1] \o sep \o Join(Tail(parts), sep)

\* End (exclusive) of the longest run of characters of class C starting at i.
RunEnd(s, i, C) ==
    CHOOSE j \in i..(Len(s) + 1) :
        /\ \A k \in i..(j - 1) : s[k] \in C
        /\ (j = Len(s) + 1 \/ s[j] \notin C)

StartsWith(s, p) == Len(s) >= Len(p) /\ SubSeq(s, 1, Len(p)) = p

\* str.replace(p, ""): every non-overlapping occurrence, left to right.
RECURSIVE RemoveAll(_, _)
RemoveAll(s, p) ==
    IF s = <<>> THEN <<>>
    ELSE IF StartsWith(s, p) THEN RemoveAll(SubSeq(s, Len(p) + 1, Len(s)), p)
    ELSE <<Head(s)>> \o RemoveAll(Tail(s), p)

\* Characters \s matches / str.strip() removes (Unicode whitespace).
Whitespace == {" ", "tab", "idsp"}

\* str.strip()
Strip(s) ==
    LET nonws == {i \in 1..Len(s) : s[i] \notin Whitespace}
    IN IF nonws = {} THEN <<>>
       ELSE SubSeq(s, CHOOSE i \in nonws : \A j \in nonws : i <= j, Max(nonws))

\* [a-z], [A-Z], [A-Za-z] and [0-9].
LowerCase == <<"a", "b", "c", "d", "e", "f", "g", "h", "i", "j", "k", "l", "m",
              "n", "o", "p", "q", "r", "s", "t", "u", "v", "w", "x", "y", "z">>
UpperCase == <<"A", "B", "C", "D", "E", "F", "G", "H", "I", "J", "K", "L", "M",
              "N", "O", "P", "Q", "R", "S", "T", "U", "V", "W", "X", "Y", "Z">>
Letters == {LowerCase[i] : i \in DOMAIN LowerCase} \cup {UpperCase[i] : i \in DOMAIN UpperCase}
Digits == {"0", "1", "2", "3", "4", "5", "6", "7", "8", "9"}

\* Least index k >= from with s[k] in C, or 0 (str.find of a character).
Find(s, C, from) ==
    LET hits == {k \in from..Len(s) : s[k] \in C}
    IN IF hits = {} THEN 0 ELSE CHOOSE k \in hits : \A l \in hits : k <= l

\* str.split(d) for a one-character separator d.
RECURSIVE Split(_, _)
Split(s, d) ==
    LET k == Find(s, {d}, 1)
    IN IF k = 0 THEN <<s>>
       ELSE <<SubSeq(s, 1, k - 1)>> \o Split(SubSeq(s, k + 1, Len(s)), d)

(***************************************************************************)
(* normalize_era                                                           *)
(***************************************************************************)
HEISEI == <<"hei", "sei">>
REIWA == <<"rei", "wa">>
SEP == <<"fwslash">>

\* Match of (Heisei|Reiwa)\s*\d+nen(?:\d+gatsu)? at position i: the end of
\* the match (exclusive), or 0 when the pattern does not match at i.
EraMatchEnd(s, i) ==
    IF ~(i + 1 <= Len(s) /\ SubSeq(s, i, i + 1) \in {HEISEI, REIWA}) THEN 0
    ELSE LET a == RunEnd(s, i + 2, Whitespace)
             b == RunEnd(s, a, Digits)
         IN IF ~(b > a /\ b <= Len(s) /\ s[b] = "nen") THEN 0
            ELSE LET c == RunEnd(s, b + 1, Digits)
                 IN IF c > b + 1 /\ c <= Len(s) /\ s[c] = "gatsu"
                    THEN c + 1 ELSE b + 1

\* re.finditer: the non-overlapping matches from position i on, in order.
RECURSIVE EraFindIter(_, _)
EraFindIter(s, i) ==
    IF i > Len(s) THEN <<>>
    ELSE LET e == EraMatchEnd(s, i)
         IN IF e = 0 THEN EraFindIter(s, i + 1)
            ELSE <<SubSeq(s, i, e - 1)>> \o EraFindIter(s, e)

\* m.group(0).replace(" ", ""): only U+0020 is removed.
RemoveSpaces(m) == SelectSeq(m, LAMBDA c : c # " ")

normalize_era(t) ==
    LET ms == EraFindIter(t, 1)
    IN Join([i \in DOMAIN ms |-> RemoveSpaces(ms[i])], SEP)

(***************************************************************************)
(* extract_email                                                           *)
(***************************************************************************)
LocalChars == Letters \cup Digits \cup {".", "_", "%", "+", "-"}
DomainChars == Letters \cup Digits \cup {".", "-"}

\* Match of [A-Za-z0-9._%+\-]+@[A-Za-z0-9.\-]+\.[A-Za-z]{2,} at position i:
\* the end of the match (exclusive), or 0.  The local part is the whole run
\* up to "@"; the domain backtracks to the last "." of its run that two
\* letters follow; the TLD takes every letter that follows.
EmailMatchEnd(s, i) ==
    LET j == RunEnd(s, i, LocalChars)
    IN IF ~(j > i /\ j <= Len(s) /\ s[j] = "@") THEN 0
       ELSE LET m == RunEnd(s, j + 1, DomainChars)
                dots == {e \in (j + 2)..(m - 3) :
                            /\ s[e] = "."
                            /\ s[e + 1] \in Letters
                            /\ s[e + 2] \in Letters}
            IN IF dots = {} THEN 0 ELSE RunEnd(s, Max(dots) + 1, Letters)

\* re.search(...).group(0), or "" when nothing matches.
extract_email(t) ==
    LET starts == {i \in 1..Len(t) : EmailMatchEnd(t, i) # 0}
    IN IF starts = {} THEN <<>>
       ELSE LET i == CHOOSE x \in starts : \A y \in starts : x <= y
            IN SubSeq(t, i, EmailMatchEnd(t, i) - 1)

(***************************************************************************)
(* fetch_email_from_detail                                                 *)
(***************************************************************************)
MAILTO == <<"m", "a", "i", "l", "t", "o", ":">>

\* What session.get + raise_for_status can do: raise one of the exceptions
\* below, or return a document.  A document is the list of its anchors'
\* href values in document order and its flattened text
\* (soup.get_text(" ", strip=True)).
FetchErrors == {"ConnectionError", "Timeout", "HTTPError"}
NoResponse == [kind |-> "none", anchors |-> <<>>, text |-> <<>>]
ErrorResponse(e) == [kind |-> e, anchors |-> <<>>, text |-> <<>>]
Document(as, t) == [kind |-> "ok", anchors |-> as, text |-> t]

\* "if not url": None and "" are both falsy.
Falsy(url) == url = NULL \/ url = <<>>

\* soup.select_one("a[href^='mailto:']"): index of the first anchor whose
\* href starts with "mailto:", or 0.
SelectMailto(as) ==
    LET hits == {i \in DOMAIN as : StartsWith(as[i], MAILTO)}
    IN IF hits = {} THEN 0 ELSE CHOOSE i \in hits : \A j \in hits : i <= j

\* a_mail.get("href", "").replace("mailto:", "").strip()
MailtoValue(href) == Strip(RemoveAll(href, MAILTO))

\* Lines 63-75: the e-mail of a fetched document.
ParseEmail(doc) ==
    LET a == SelectMailto(doc.anchors)
    IN IF a # 0 /\ MailtoValue(doc.anchors[a]) # <<>>
       THEN MailtoValue(doc.anchors[a])
       ELSE extract_email(doc.text)

ADDR1 == <<"a", "@", "b", ".", "c", "o">>
ADDR2 == <<"c", "@", "d", ".", "j", "p">>

\* Detail documents of the pagination model.
DocPool ==
    {Document(<<MAILTO \o <<" ", " ">> \o ADDR1 \o <<" ">> >>, <<"x", " ">> \o ADDR2),
     Document(<<MAILTO \o ADDR1 \o <<"?", "s">> >>, <<>>),
     Document(<<MAILTO \o <<" ">> >>, <<"x", " ">> \o ADDR2 \o <<" ", "x">>),
     Document(<<>>, <<"x", "@", " ", "x">>)}

BREAK == <<"</a><a>">>
HrefItems == {BREAK, MAILTO, <<" ">>, ADDR1, <<"?">>}

\* The href values of the anchors an item sequence spells out.
RECURSIVE AnchorsOf(_)
AnchorsOf(items) ==
    IF items = <<>> THEN << <<>> >>
    ELSE LET rest == AnchorsOf(Tail(items))
         IN IF Head(items) = BREAK THEN << <<>> >> \o rest
            ELSE <<Head(items) \o rest[1]>> \o Tail(rest)

AnchorLists(n) ==
    {<<>>} \cup {AnchorsOf(items) : items \in BoundedSeq(HrefItems, n)}

TextChars == {"m", "1", ".", "@", " "}
Texts(n) == BoundedSeq(TextChars, n)

\* Documents with up to n href items, or with a text of up to m characters.
Docs(n, m) ==
    {Document(as, t) : as \in AnchorLists(n),
                       t \in {<<>>, <<"x", " ">> \o ADDR2 \o <<" ", "x">>}}
    \cup {Document(as, t) : as \in {<<>>, <<MAILTO>>}, t \in Texts(m)}

\* ParseEmail is pure: its values on the documents of the pagination model,
\* computed once.
EmailOfDocument == [doc \in DocPool |-> ParseEmail(doc)]

fetch_email_from_detail(url, resp) ==
    IF Falsy(url) THEN <<>>
    ELSE IF resp.kind # "ok" THEN <<>>
    ELSE IF resp \in DOMAIN EmailOfDocument THEN EmailOfDocument[resp]
    ELSE ParseEmail(resp)

(***************************************************************************)
(* parse_list                                                              *)
(***************************************************************************)
HTTP == <<"h", "t", "t", "p">>
HTTPS == HTTP \o <<"s">>
BNETLOC == <<"w", "w", "w", ".", "z", "e", "i", "r", "i", "s", "h", "i",
            "k", "e", "n", "s", "a", "k", "u", ".", "j", "p">>
BPATH == <<"/", "N", "z", "S", "e", "a", "r", "c", "h",
          "C", "o", "n", "t", "e", "n", "t", "P", "e", "r", "s", "o", "n">>
BASE_URL == HTTPS \o <<":", "/", "/">> \o BNETLOC \o BPATH
PREF == "pref"
SENTINEL == <<"ki", "sai", "na", "shi">>

\* An exception raised by urllib.parse (requests.compat.urljoin).
ValueError == [raises |-> "ValueError"]

\* str.lower() of an ASCII character.
Lower(c) ==
    IF \E i \in DOMAIN UpperCase : UpperCase[i] = c
    THEN LowerCase[CHOOSE i \in DOMAIN UpperCase : UpperCase[i] = c]
    ELSE c

SchemeChars == Letters \cup Digits \cup {"+", "-", "."}

\* urlsplit, first step: leading C0 controls and spaces are stripped, tabs
\* are removed everywhere.
CleanUrl(url) ==
    SelectSeq(SubSeq(url, RunEnd(url, 1, {" ", "tab"}), Len(url)),
              LAMBDA c : c # "tab")

\* Index of the ":" that ends the scheme of u, or 0 when u has no scheme:
\* the first ":" , not at the start, after a letter and scheme characters.
SchemeEnd(u) ==
    LET i == Find(u, {":"}, 1)
    IN IF i > 1 /\ u[1] \in Letters /\ (\A k \in 1..(i - 1) : u[k] \in SchemeChars)
       THEN i ELSE 0

\* urlsplit, last step: fragment and query are cut off the rest, in that
\* order.  A netloc with "[" and no "]", or with a character that NFKC
\* turns into "/" (the fullwidth solidus), raises ValueError.  ("]" and ";"
\* are not characters of the model.)
SplitPath(scheme, netloc, u) ==
    LET h == Find(u, {"#"}, 1)
        q == Find(u, {"?"}, 1)
        e == IF h = 0 THEN Len(u) ELSE h - 1
    IN IF \E k \in DOMAIN netloc : netloc[k] \in {"[", "fwslash"} THEN ValueError
       ELSE [scheme |-> scheme,
             netloc |-> netloc,
             path |-> IF q = 0 \/ q > e THEN SubSeq(u, 1, e) ELSE SubSeq(u, 1, q - 1),
             query |-> IF q = 0 \/ q > e THEN <<>> ELSE SubSeq(u, q + 1, e),
             fragment |-> IF h = 0 THEN <<>> ELSE SubSeq(u, h + 1, Len(u))]

\* urlsplit, second step: after "//" the netloc runs to the first of "/?#".
SplitNetloc(scheme, u) ==
    LET d == Find(u, {"/", "?", "#"}, 3)
    IN IF ~StartsWith(u, <<"/", "/">>) THEN SplitPath(scheme, <<>>, u)
       ELSE IF d = 0 THEN SplitPath(scheme, SubSeq(u, 3, Len(u)), <<>>)
       ELSE SplitPath(scheme, SubSeq(u, 3, d - 1), SubSeq(u, d, Len(u)))

SplitScheme(scheme, u) ==
    IF SchemeEnd(u) = 0 THEN SplitNetloc(scheme, u)
    ELSE SplitNetloc([k \in 1..(SchemeEnd(u) - 1) |-> Lower(u[k])],
                     SubSeq(u, SchemeEnd(u) + 1, Len(u)))

\* urlsplit(url, scheme): the five components, or ValueError.
urlsplit(url, scheme) == SplitScheme(scheme, CleanUrl(url))

\* urlunsplit for a scheme of uses_netloc.
urlunsplit(scheme, netloc, path, query, fragment) ==
    LET url == IF netloc # <<>> \/ ~StartsWith(path, <<"/", "/">>)
               THEN <<"/", "/">> \o netloc
                        \o (IF path # <<>> /\ path[1] # "/" THEN <<"/">> ELSE <<>>)
                        \o path
               ELSE path
    IN scheme \o <<":">> \o url
          \o (IF query # <<>> THEN <<"?">> \o query ELSE <<>>)
          \o (IF fragment # <<>> THEN <<"#">> \o fragment ELSE <<>>)

\* The loop over segments of urljoin: ".." pops, "." is skipped.
RECURSIVE ResolveDots(_, _, _)
ResolveDots(segments, i, resolved) ==
    IF i > Len(segments) THEN resolved
    ELSE IF segments[i] = <<".", ".">>
    THEN ResolveDots(segments, i + 1,
                     IF resolved = <<>> THEN <<>>
                     ELSE SubSeq(resolved, 1, Len(resolved) - 1))
    ELSE IF segments[i] = <<".">> THEN ResolveDots(segments, i + 1, resolved)
    ELSE ResolveDots(segments, i + 1, Append(resolved, segments[i]))

\* segments[1:-1] = filter(None, segments[1:-1])
RECURSIVE FilterMiddle(_, _)
FilterMiddle(segments, k) ==
    IF k > Len(segments) THEN <<>>
    ELSE (IF k = 1 \/ k = Len(segments) \/ segments[k] # <<>>
          THEN <<segments[k]>> ELSE <<>>) \o FilterMiddle(segments, k + 1)

\* The path of urljoin for a non-empty relative path.  The directory of
\* BPATH is "/": base_parts is [""] once its last segment is deleted.
MergePath(path) ==
    LET segments == IF path[1] = "/" THEN Split(path, "/")
                    ELSE FilterMiddle(<< <<>> >> \o Split(path, "/"), 1)
        resolved == ResolveDots(segments, 1, <<>>)
        closed == IF segments[Len(segments)] \in {<<".">>, <<".", ".">>}
                  THEN Append(resolved, <<>>) ELSE resolved
        joined == Join(closed, <<"/">>)
    IN IF joined = <<>> THEN <<"/">> ELSE joined

\* requests.compat.urljoin(BASE_URL, href): the URL, or ValueError.
UrlJoin(href) ==
    IF href = <<>> THEN BASE_URL
    ELSE LET p == urlsplit(href, HTTPS)
         IN IF p = ValueError THEN ValueError
            ELSE IF p.scheme # HTTPS THEN href
            ELSE IF p.netloc # <<>>
            THEN urlunsplit(p.scheme, p.netloc, p.path, p.query, p.fragment)
            ELSE IF p.path = <<>>
            THEN urlunsplit(p.scheme, BNETLOC, BPATH, p.query, p.fragment)
            ELSE urlunsplit(p.scheme, BNETLOC, MergePath(p.path), p.query, p.fragment)

\* urljoin raises for this href.
UrlJoinRaises(href) == href # <<>> /\ urlsplit(href, HTTPS) = ValueError

\* href.startswith("http")
IsAbsolute(href) == StartsWith(href, HTTP)

\* Lines 105-109: the detail URL of a card whose first anchor has this href
\* (NULL: the card has no anchor with an href).
DetailUrl(href) ==
    IF href = NULL THEN NULL
    ELSE IF IsAbsolute(href) THEN href ELSE UrlJoin(href)

\* The ValueError of urljoin is not caught in parse_list.
CardRaises(c) ==
    c.href # NULL /\ ~IsAbsolute(c.href) /\ UrlJoinRaises(c.href)

\* One listing card -> one record, or ValueError.
ParseCard(c) ==
    IF CardRaises(c) THEN ValueError
    ELSE [pref |-> "",
          office |-> c.office,
          rep |-> c.rep,
          tel |-> c.tel,
          email |-> <<>>,
          addr |-> c.addr,
          reg |-> normalize_era(c.reg),
          detail_url |-> DetailUrl(c.href)]

\* Listing cards a result page can hold: without a link, with a relative
\* link, with an absolute link, and with a link urljoin cannot parse.
DETAIL_HREF == <<"d", "e", "t", "a", "i", "l", "?", "i", "d", "=", "1">>
CardPool ==
    {[office |-> <<"a">>, rep |-> <<"x">>, tel |-> <<"1">>, addr |-> <<"s">>,
      reg |-> HEISEI \o <<" ", "3", "nen">>, href |-> NULL],
     [office |-> <<"b">>, rep |-> <<>>, tel |-> <<"2">>, addr |-> <<"s">>,
      reg |-> <<"x">>, href |-> DETAIL_HREF],
     [office |-> <<"b">>, rep |-> <<>>, tel |-> <<"3">>, addr |-> <<"s">>,
      reg |-> <<>>, href |-> HTTP \o <<":", "/", "/", "o", ".", "j", "p", "/">>],
     [office |-> <<"c">>, rep |-> <<>>, tel |-> <<"4">>, addr |-> <<"s">>,
      reg |-> <<>>, href |-> <<"/", "/", "[">>]}

\* ParseCard is pure: its values on the cards of the model, computed once.
RecordOfCard == [c \in CardPool |-> ParseCard(c)]

ParsedCard(c) == IF c \in DOMAIN RecordOfCard THEN RecordOfCard[c] ELSE ParseCard(c)

\* parse_list raises on this page.
ParseListRaises(html) == \E i \in DOMAIN html : ParsedCard(html[i]) = ValueError

\* A page is the sequence of its listing cards: its records, or ValueError.
parse_list(html) ==
    IF ParseListRaises(html) THEN ValueError
    ELSE [i \in DOMAIN html |-> ParsedCard(html[i])]

(***************************************************************************)
(* Aggregator: drop_duplicates on the key column, split, drop detail_url.  *)
(***************************************************************************)
\* df["key"] = office + "|" + tel
Key(r) == r.office \o <<"|">> \o r.tel

RECURSIVE KeepFirst(_, _, _)
KeepFirst(rs, i, seen) ==
    IF i > Len(rs) THEN <<>>
    ELSE IF Key(rs[i]) \in seen THEN KeepFirst(rs, i + 1, seen)
    ELSE <<rs[i]>> \o KeepFirst(rs, i + 1, seen \cup {Key(rs[i])})

drop_duplicates(rs) == KeepFirst(rs, 1, {})

\* Mutant: the email-present subset deduplicated once more by office name.
RECURSIVE KeepFirstOffice(_, _, _)
KeepFirstOffice(rs, i, seen) ==
    IF i > Len(rs) THEN <<>>
    ELSE IF rs[i].office \in seen THEN KeepFirstOffice(rs, i + 1, seen)
    ELSE <<rs[i]>> \o KeepFirstOffice(rs, i + 1, seen \cup {rs[i].office})
df_mail_by_office(d) ==
    KeepFirstOffice(SelectSeq(d, LAMBDA r : r.email # SENTINEL), 1, {})

df_mail(d) == SelectSeq(d, LAMBDA r : r.email # SENTINEL)
\* Mutant: the first sheet takes every record.
df_nomail_all(d) == d
df_nomail(d) == SelectSeq(d, LAMBDA r : r.email = SENTINEL)

\* .drop(columns=["detail_url"])
DropUrl(r) == [f \in DOMAIN r \ {"detail_url"} |-> r[f]]
ToSheet(d) == [i \in DOMAIN d |-> DropUrl(d[i])]

(***************************************************************************)
(* Inputs of the model.                                                    *)
(***************************************************************************)
DriverResponses == {ErrorResponse(e) : e \in FetchErrors} \cup DocPool

(***************************************************************************)
(* main(): the pagination loop.                                            *)
(***************************************************************************)
Event(t, n, u, ok) == [type |-> t, page |-> n, url |-> u, ok |-> ok]

\* Values of --delay: argparse's type=float accepts any float and main()
\* does not check it (seconds, as whole numbers here).
Delays == {-1, 0, 1}

Init ==
    /\ pc = "fetch"
    /\ page = 1
    /\ rows = <<>>
    /\ idx = 1
    /\ all_rows = <<>>
    /\ parsed = <<>>
    /\ log = <<>>
    /\ lastResp = NoResponse
    /\ df = <<>>
    /\ sheetNoMail = <<>>
    /\ sheetMail = <<>>
    /\ written = FALSE
    /\ delay \in Delays
    /\ text = <<>>
    /\ result = <<>>

\* Mutant: a failed page fetch is taken for the end of the results.
FetchPageFailsSwallowed ==
    /\ pc = "fetch"
    /\ \E e \in FetchErrors :
          log' = Append(log, Event("page", page, NULL, FALSE))
    /\ pc' = "after_loop"
    /\ UNCHANGED <<delay, page, rows, idx, all_rows, parsed, lastResp, df,
                   sheetNoMail, sheetMail, written, text, result>>

\* fetch_page raises: nothing in main() catches it.
FetchPageFails ==
    /\ pc = "fetch"
    /\ \E e \in FetchErrors :
          log' = Append(log, Event("page", page, NULL, FALSE))
    /\ pc' = "aborted"
    /\ UNCHANGED <<delay, page, rows, idx, all_rows, parsed, lastResp, df,
                   sheetNoMail, sheetMail, written, text, result>>

\* fetch_page returns and parse_list raises ValueError (urljoin on an href
\* it cannot parse): nothing in main() catches it.
ParseListFails ==
    /\ pc = "fetch"
    /\ \E html \in BoundedSeq(CardPool, MaxRecords - Len(all_rows)) :
          ParseListRaises(html)
    /\ log' = Append(log, Event("page", page, NULL, TRUE))
    /\ pc' = "aborted"
    /\ UNCHANGED <<delay, page, rows, idx, all_rows, parsed, lastResp, df,
                   sheetNoMail, sheetMail, written, text, result>>

\* html = fetch_page(...); rows = parse_list(html); if not rows: break
\* (the --debug dump and print change nothing that is modelled).
FetchPage ==
    /\ pc = "fetch"
    /\ \E html \in BoundedSeq(CardPool, MaxRecords - Len(all_rows)) :
          /\ ~ParseListRaises(html)
          /\ rows' = parse_list(html)
          /\ parsed' = Append(parsed, parse_list(html))
          /\ pc' = IF parse_list(html) = <<>> THEN "after_loop" ELSE "detail"
    /\ log' = Append(log, Event("page", page, NULL, TRUE))
    /\ idx' = 1
    /\ lastResp' = NoResponse
    /\ UNCHANGED <<delay, page, all_rows, df, sheetNoMail, sheetMail, written,
                   text, result>>

\* Mutant: a failed detail request is not caught and ends the run.
DetailStepRaises(responses) ==
    /\ pc = "detail"
    /\ LET url == rows[idx].detail_url
       IN \E resp \in (IF Falsy(url) THEN {NoResponse} ELSE responses) :
             LET email == fetch_email_from_detail(url, resp)
             IN /\ rows' = [rows EXCEPT
                               ![idx].email = IF email # <<>> THEN email ELSE SENTINEL,
                               ![idx].pref = PREF]
                /\ lastResp' = resp
                /\ log' = IF Falsy(url) THEN log
                          ELSE Append(log, Event("detail", page, url, resp.kind = "ok"))
                /\ pc' = IF resp.kind \in FetchErrors THEN "aborted"
                         ELSE IF idx = Len(rows) THEN "extend" ELSE "detail"
    /\ idx' = idx + 1
    /\ UNCHANGED <<delay, page, all_rows, parsed, df, sheetNoMail, sheetMail,
                   written, text, result>>

\* One iteration of "for r in rows": the detail fetch of rows[idx].
DetailStep(responses) ==
    /\ pc = "detail"
    /\ LET url == rows[idx].detail_url
       IN \E resp \in (IF Falsy(url) THEN {NoResponse} ELSE responses) :
             LET email == fetch_email_from_detail(url, resp)
             IN /\ rows' = [rows EXCEPT
                               ![idx].email = IF email # <<>> THEN email ELSE SENTINEL,
                               ![idx].pref = PREF]
                /\ lastResp' = resp
                /\ log' = IF Falsy(url) THEN log
                          ELSE Append(log, Event("detail", page, url, resp.kind = "ok"))
    /\ idx' = idx + 1
    /\ pc' = IF idx = Len(rows) THEN "extend" ELSE "detail"
    /\ UNCHANGED <<delay, page, all_rows, parsed, df, sheetNoMail, sheetMail,
                   written, text, result>>

\* all_rows.extend(rows); page += 1; time.sleep(args.delay) raises
\* ValueError for a negative delay: nothing in main() catches it.
SleepFails ==
    /\ pc = "extend"
    /\ delay < 0
    /\ all_rows' = all_rows \o rows
    /\ page' = page + 1
    /\ log' = Append(log, Event("sleep", page, NULL, FALSE))
    /\ pc' = "aborted"
    /\ UNCHANGED <<delay, rows, idx, parsed, lastResp, df, sheetNoMail,
                   sheetMail, written, text, result>>

\* all_rows.extend(rows); page += 1; time.sleep(args.delay)
ExtendSleep ==
    /\ pc = "extend"
    /\ delay >= 0
    /\ all_rows' = all_rows \o rows
    /\ page' = page + 1
    /\ log' = Append(log, Event("sleep", page, NULL, TRUE))
    /\ pc' = "fetch"
    /\ UNCHANGED <<delay, rows, idx, parsed, lastResp, df, sheetNoMail, sheetMail,
                   written, text, result>>

\* After the loop: "no results" message, or deduplicate, split and write
\* both sheets (to a writable output path).
Finish ==
    /\ pc = "after_loop"
    /\ IF all_rows = <<>>
       THEN /\ pc' = "no_results"
            /\ UNCHANGED <<df, sheetNoMail, sheetMail, written>>
       ELSE /\ df' = drop_duplicates(all_rows)
            /\ sheetNoMail' = ToSheet(df_nomail(drop_duplicates(all_rows)))
            /\ sheetMail' = ToSheet(df_mail(drop_duplicates(all_rows)))
            /\ written' = TRUE
            /\ pc' = "done"
    /\ UNCHANGED <<delay, page, rows, idx, all_rows, parsed, log, lastResp,
                   text, result>>

Next ==
    \/ FetchPageFails
    \/ ParseListFails
    \/ FetchPage
    \/ DetailStep(DriverResponses)
    \/ ExtendSleep
    \/ SleepFails
    \/ Finish

Spec == Init /\ [][Next]_vars

\* The run is sequential code: a step that can be taken is taken.
FairSpec == Spec /\ WF_vars(Next)

(***************************************************************************)
(* normalize_era on bounded inputs.                                        *)
(***************************************************************************)
EraSegs ==
    {HEISEI, REIWA, <<" ">>, <<"idsp">>, <<"3">>, <<"nen">>, <<"gatsu">>, <<"x">>}

\* "Heisei 31nen 3gatsu hikitsuzuki Reiwa2nen" (the example input of the
\* era normalizer; "x" stands for the free text between the two dates).
EraExample ==
    HEISEI \o <<" ", "3", "1", "nen", " ", "3", "gatsu", " ", "x", " ">>
           \o REIWA \o <<"2", "nen">>

\* Texts of up to n segments, and the example.
EraTexts(n) ==
    {Concat(ss) : ss \in BoundedSeq(EraSegs, n)} \cup {EraExample}

InitEra ==
    /\ pc = "normalize_era"
    /\ text \in EraTexts(MaxEraSegs)
    /\ result = <<>>
    /\ page = 1
    /\ rows = <<>>
    /\ idx = 1
    /\ all_rows = <<>>
    /\ parsed = <<>>
    /\ log = <<>>
    /\ lastResp = NoResponse
    /\ df = <<>>
    /\ sheetNoMail = <<>>
    /\ sheetMail = <<>>
    /\ written = FALSE
    /\ delay = 1

NormalizeEra ==
    /\ pc = "normalize_era"
    /\ result' = normalize_era(text)
    /\ pc' = "era_returned"
    /\ UNCHANGED <<delay, page, rows, idx, all_rows, parsed, log, lastResp, df,
                   sheetNoMail, sheetMail, written, text>>

NextEra == NormalizeEra

SpecEra == InitEra /\ [][NextEra]_vars

(***************************************************************************)
(* fetch_email_from_detail on bounded documents: one record of page 1.     *)
(***************************************************************************)
DetailResponses(n, m) == {ErrorResponse(e) : e \in FetchErrors} \cup Docs(n, m)

InitDetail ==
    /\ pc = "detail"
    /\ page = 1
    /\ \E c \in CardPool :
          /\ ~ParseListRaises(<<c>>)
          /\ rows = parse_list(<<c>>)
          /\ parsed = <<parse_list(<<c>>)>>
    /\ idx = 1
    /\ all_rows = <<>>
    /\ log = <<Event("page", 1, NULL, TRUE)>>
    /\ lastResp = NoResponse
    /\ df = <<>>
    /\ sheetNoMail = <<>>
    /\ sheetMail = <<>>
    /\ written = FALSE
    /\ delay \in Delays
    /\ text = <<>>
    /\ result = <<>>

NextDetail == DetailStep(DetailResponses(MaxItems, MaxTextLen))

SpecDetail == InitDetail /\ [][NextDetail]_vars

(***************************************************************************)
(* The aggregator on bounded accumulated record sets.                      *)
(***************************************************************************)
AggPool ==
    [pref : {PREF},
     office : {<<"a">>, <<"a", "|">>},
     rep : {<<>>},
     tel : {<<"b">>, <<"|", "b">>},
     email : {SENTINEL, ADDR1},
     addr : {<<"s">>, <<"x">>},
     reg : {<<>>},
     detail_url : {UrlJoin(DETAIL_HREF)}]

InitAgg ==
    /\ pc = "after_loop"
    /\ all_rows \in BoundedSeq(AggPool, MaxAgg)
    /\ page = 1
    /\ rows = <<>>
    /\ idx = 1
    /\ parsed = <<>>
    /\ log = <<>>
    /\ lastResp = NoResponse
    /\ df = <<>>
    /\ sheetNoMail = <<>>
    /\ sheetMail = <<>>
    /\ written = FALSE
    /\ delay \in {d \in Delays : d >= 0}   \* records were accumulated
    /\ text = <<>>
    /\ result = <<>>

NextAgg == Finish

SpecAgg == InitAgg /\ [][NextAgg]_vars

(***************************************************************************)
(* Properties.                                                             *)
(***************************************************************************)
Terminal == {"done", "no_results", "aborted"}
LoopPcs == {"fetch", "detail", "extend"}

PageEvents == SelectSeq(log, LAMBDA e : e.type = "page")
DetailEvents == SelectSeq(log, LAMBDA e : e.type = "detail")

\* A record as parse_list built it, before the driver attached e-mail and
\* prefecture.
Unprocessed(r) == [r EXCEPT !.email = <<>>, !.pref = ""]

\* The records whose detail fetch is over.
Processed ==
    IF pc \in {"detail", "extend"} THEN all_rows \o SubSeq(rows, 1, idx - 1)
    ELSE all_rows

\* C1: when the run has left the loop, no page fetch failed and every
\* fetched page was parsed, then the last fetched page k is the first empty
\* one, fetch_page was called exactly k times, for pages 1, 2, ..., k in
\* that order, and the accumulated records are the records of pages 1..k-1
\* in page order and in-page order.
C1_Pagination ==
    (/\ pc \notin LoopPcs
     /\ \A i \in DOMAIN PageEvents : PageEvents[i].ok
     /\ Len(parsed) = Len(PageEvents)) =>
        LET k == Len(PageEvents)
        IN /\ k >= 1
           /\ \A i \in 1..k : PageEvents[i].page = i
           /\ parsed[k] = <<>>
           /\ \A i \in 1..(k - 1) : parsed[i] # <<>>
           /\ [i \in DOMAIN all_rows |-> Unprocessed(all_rows[i])]
                  = Concat(SubSeq(parsed, 1, k - 1))

\* C2: a failed listing-page fetch is the last request of the run: the run
\* is aborted, the page is not fetched again, nothing is requested after it
\* and no spreadsheet is written, whatever the earlier pages contributed.
C2_FatalPageFetch ==
    \A i \in DOMAIN log :
        (log[i].type = "page" /\ ~log[i].ok) =>
            /\ i = Len(log)
            /\ pc = "aborted"
            /\ \A j \in DOMAIN log :
                  (j # i /\ log[j].type = "page") => log[j].page # log[i].page
            /\ ~written
            /\ sheetNoMail = <<>> /\ sheetMail = <<>> /\ df = <<>>

\* Page 2 or later failed after records had been accumulated.
C2_Witness ==
    /\ pc = "aborted"
    /\ Len(all_rows) >= 1
    /\ log[Len(log)].type = "page" /\ ~log[Len(log)].ok
    /\ log[Len(log)].page >= 2

\* C3: one request per record with a detail URL and none without, in record
\* order; a missing URL or a failed request gives the sentinel; the driver
\* goes on to the next record, and the run never aborts on a detail fetch
\* (the last call of an aborted run is a page fetch or a sleep).
C3_DetailAbsorbed ==
    /\ [i \in DOMAIN DetailEvents |-> DetailEvents[i].url]
          = LET linked == SelectSeq(Processed, LAMBDA r : ~Falsy(r.detail_url))
            IN [i \in DOMAIN linked |-> linked[i].detail_url]
    /\ (pc \in {"detail", "extend"} /\ idx > 1) =>
          LET r == rows[idx - 1]
          IN /\ Falsy(r.detail_url) => lastResp = NoResponse
             /\ (Falsy(r.detail_url) \/ lastResp.kind \in FetchErrors)
                    => r.email = SENTINEL
    /\ pc = "detail" => idx <= Len(rows)
    /\ pc = "extend" => idx = Len(rows) + 1
    /\ pc = "aborted" => log # <<>> /\ log[Len(log)].type \in {"page", "sleep"}

\* A detail request failed on page 1, and the run went on to the end.
C3_Witness ==
    /\ pc = "done"
    /\ Len(parsed) = 3
    /\ \E i \in DOMAIN log : log[i].type = "detail" /\ ~log[i].ok /\ log[i].page = 1
    /\ \E i \in DOMAIN all_rows : all_rows[i].detail_url = NULL

\* The elements of rs at the indices in I, in order.
RECURSIVE SubseqAt(_, _, _)
SubseqAt(rs, I, i) ==
    IF i > Len(rs) THEN <<>>
    ELSE IF i \in I THEN <<rs[i]>> \o SubseqAt(rs, I, i + 1)
    ELSE SubseqAt(rs, I, i + 1)

SamePair(r, q) == r.office = q.office /\ r.tel = q.tel

\* The first record of every distinct (office, tel) pair, in encounter order.
FirstOfEachPair(rs) ==
    SubseqAt(rs, {i \in DOMAIN rs : \A j \in 1..(i - 1) : ~SamePair(rs[j], rs[i])}, 1)

\* C4: the deduplicated records are exactly the first record of each
\* distinct (officeName, phone) pair, in encounter order: records whose
\* pairs differ both survive, records with the same pair leave the first.
C4_PairIdentity == pc = "done" => df = FirstOfEachPair(all_rows)

\* C5 as stated: the email-present sheet never holds two records with the
\* same officeName.
C5_OfficeUnique ==
    pc = "done" =>
        \A i, j \in DOMAIN sheetMail :
            i # j => sheetMail[i].office # sheetMail[j].office

\* C5 as amended: the email-present sheet holds every deduplicated record
\* whose e-mail is not the sentinel (nothing more is removed), and never two
\* records with the same officeName and the same phone.
C5_NoFurtherDedup ==
    pc = "done" =>
        /\ Len(sheetMail) = Cardinality({i \in DOMAIN df : df[i].email # SENTINEL})
        /\ \A i, j \in DOMAIN sheetMail :
              i # j => ~SamePair(sheetMail[i], sheetMail[j])

\* Two records of one office with different phones are both on the sheet.
C5_Witness ==
    /\ pc = "done"
    /\ \E i, j \in DOMAIN sheetMail :
          /\ i # j
          /\ sheetMail[i].office = sheetMail[j].office
          /\ sheetMail[i].tel # sheetMail[j].tel

Occurrences(x, sheet) == Cardinality({k \in DOMAIN sheet : sheet[k] = x})
FirstPos(x, rs) == CHOOSE i \in DOMAIN rs : rs[i] = x /\ \A j \in 1..(i - 1) : rs[j] # x
InEncounterOrder(sheet) ==
    \A k, l \in DOMAIN sheet :
        k < l => FirstPos(sheet[k], ToSheet(all_rows)) < FirstPos(sheet[l], ToSheet(all_rows))

\* C7: every deduplicated record is on exactly one sheet, on the no-email
\* sheet iff its e-mail is the sentinel; no sentinel record is on the
\* email-present sheet; each sheet is in encounter order.
C7_Partition ==
    pc = "done" =>
        /\ \A i \in DOMAIN df :
              LET x == DropUrl(df[i])
              IN /\ Occurrences(x, sheetNoMail) + Occurrences(x, sheetMail) = 1
                 /\ Occurrences(x, sheetNoMail) = 1 <=> df[i].email = SENTINEL
        /\ \A k \in DOMAIN sheetMail : sheetMail[k].email # SENTINEL
        /\ \A k \in DOMAIN sheetNoMail : sheetNoMail[k].email = SENTINEL
        /\ Len(sheetNoMail) + Len(sheetMail) = Len(df)
        /\ InEncounterOrder(sheetNoMail)
        /\ InEncounterOrder(sheetMail)

\* Both sheets are populated, the email-present one with two records.
C7_Witness ==
    /\ pc = "done"
    /\ Len(sheetNoMail) >= 1
    /\ Len(sheetMail) >= 2

\* s has the shape local@domain.tld of the address pattern.
IsAddress(s) ==
    \E at \in 2..Len(s), dot \in 4..(Len(s) - 2) :
        /\ at + 1 < dot
        /\ s[at] = "@"
        /\ s[dot] = "."
        /\ \A k \in 1..(at - 1) : s[k] \in LocalChars
        /\ \A k \in (at + 1)..(dot - 1) : s[k] \in DomainChars
        /\ \A k \in (dot + 1)..Len(s) : s[k] \in Letters

\* C6: every accumulated record has a non-empty e-mail that is the sentinel
\* or has the full address shape, whichever path produced it.
C6_EmailShape ==
    \A i \in DOMAIN all_rows :
        /\ all_rows[i].email # <<>>
        /\ all_rows[i].email = SENTINEL \/ IsAddress(all_rows[i].email)

\* The era pattern as C8 words it: era name, digits, year sign and an
\* optional digits + month sign, where whitespace may separate the era name
\* from the year and the year from the month (as in the example input).
EraClaimMatchEnd(s, i) ==
    IF ~(i + 1 <= Len(s) /\ SubSeq(s, i, i + 1) \in {HEISEI, REIWA}) THEN 0
    ELSE LET a == RunEnd(s, i + 2, Whitespace)
             b == RunEnd(s, a, Digits)
         IN IF ~(b > a /\ b <= Len(s) /\ s[b] = "nen") THEN 0
            ELSE LET c == RunEnd(s, b + 1, Whitespace)
                     d == RunEnd(s, c, Digits)
                 IN IF d > c /\ d <= Len(s) /\ s[d] = "gatsu"
                    THEN d + 1 ELSE b + 1

RECURSIVE EraClaimFindIter(_, _)
EraClaimFindIter(s, i) ==
    IF i > Len(s) THEN <<>>
    ELSE LET e == EraClaimMatchEnd(s, i)
         IN IF e = 0 THEN EraClaimFindIter(s, i + 1)
            ELSE <<SelectSeq(SubSeq(s, i, e - 1), LAMBDA c : c \notin Whitespace)>>
                     \o EraClaimFindIter(s, e)

EraExampleOut ==
    HEISEI \o <<"3", "1", "nen", "3", "gatsu">> \o SEP \o REIWA \o <<"2", "nen">>

\* C8: normalize_era returns the matches of the era pattern in order of
\* appearance, each with all its whitespace removed, joined by the
\* separator; the example input gives the example output.
C8_EraNormalized ==
    pc = "era_returned" =>
        /\ result = Join(EraClaimFindIter(text, 1), SEP)
        /\ \A k \in DOMAIN result : result[k] \notin Whitespace
        /\ text = EraExample => result = EraExampleOut

\* "mailto:" removed as a prefix only.
RemovePrefix(s, p) == IF StartsWith(s, p) THEN SubSeq(s, Len(p) + 1, Len(s)) ELSE s

\* C9: for a fetched document, the first mailto: anchor's href without the
\* prefix and surrounding whitespace is returned when it is non-empty;
\* otherwise the first address in the page text, or the empty string.
C9_MailtoPriority ==
    (pc = "extend" /\ lastResp.kind = "ok") =>
        LET a == SelectMailto(lastResp.anchors)
            v == IF a = 0 THEN <<>>
                 ELSE Strip(RemovePrefix(lastResp.anchors[a], MAILTO))
            email == IF v # <<>> THEN v ELSE extract_email(lastResp.text)
        IN rows[idx - 1].email = IF email # <<>> THEN email ELSE SENTINEL

\* Between two consecutive page fetches: the detail fetches of the earlier
\* page, then exactly one sleep.
SleepBetweenPages ==
    \A i, j \in DOMAIN log :
        (/\ i < j
         /\ log[i].type = "page"
         /\ log[j].type = "page"
         /\ \A m \in (i + 1)..(j - 1) : log[m].type # "page")
        => /\ j - 1 > i
           /\ log[j - 1].type = "sleep"
           /\ \A m \in (i + 1)..(j - 2) : log[m].type = "detail"

\* The loop is left only on an empty page or on a failed page fetch.
LoopExit ==
    (pc \in LoopPcs /\ pc' \notin LoopPcs) =>
        \/ pc' = "after_loop" /\ rows' = <<>> /\ parsed'[Len(parsed')] = <<>>
        \/ pc' = "aborted" /\ log'[Len(log')].type = "page" /\ ~log'[Len(log')].ok

\* C10: the run reaches a terminal state; the loop is left only on an empty
\* page or a failed page fetch; one sleep separates consecutive page
\* fetches, after the detail fetches of the earlier page.
C10_Termination ==
    /\ <>(pc \in Terminal)
    /\ [][LoopExit]_vars
    /\ []SleepBetweenPages

====
